---- MODULE Spec2Model ----
(***************************************************************************)
(* Buffer pool of BusTub: the LRU replacer (lru_replacer.cpp) and one      *)
(* buffer pool manager instance (buffer_pool_manager_instance.cpp).        *)
(* Every public operation of the instance takes the instance latch for its *)
(* whole body, so an operation is one action; the two places where the     *)
(* code locks a std::mutex its thread already owns are undefined behaviour *)
(* and are modelled as a choice between the two outcomes a build can show: *)
(* the thread blocks for ever, or the second lock falls through.           *)
(* The parallel pool (parallel_buffer_pool_manager.cpp) is a vector of     *)
(* instances sharing the page id space by residue, and a rotating index    *)
(* for new_page.                                                           *)
(***************************************************************************)
EXTENDS Integers, Sequences, FiniteSets, TLC

\* ---------------------------------------------------------------- bounds
PoolSize == 2            \* the instance is built with 1 .. PoolSize frames
ExtraPages == 1          \* page ids in use: ExtraPages more than there are frames
MaxPin == 2              \* a page is pinned at most MaxPin times at once
MaxByte == 1             \* the bytes of a page are one value in 0 .. MaxByte
NumThreads == 2          \* calling threads
NumInstances == 2        \* instances of the parallel pool
MaxSplit == 1            \* DeletePgImp runs on without latch_ at most MaxSplit times

\* ------------------------------------------------------- program constants
INVALID_PAGE_ID == -1    \* sentinel page id (FindReplacePolicy compares with -1)
num_instances_ == 1      \* the single-instance constructor passes 1 and 0
instance_index_ == 0

Bytes == 0 .. MaxByte
Threads == 1 .. NumThreads
NoThread == 0
NoFrame == -1

VARIABLES
  pool_size_,       \* number of frames, set by the constructor
  capacity,         \* capacity of the replacer, set by its constructor
  pages,            \* pages_[f] = [page_id_, pin_count_, is_dirty_, data_]
  page_table_,      \* function: resident page id -> frame id
  free_list_,       \* sequence of frame ids, front first
  lru,              \* replacer list, front first; the victim is the back
  hashMap,          \* replacer index: the frame ids that are keys of hashMap
  next_page_id_,    \* allocator
  disk,             \* bytes last written for each page id by WritePage
  latch_,           \* owner of the instance latch, NoThread when free
  replacer_latch_,  \* owner of the replacer latch, NoThread when free
  pc,               \* pc[t]: "idle", or where thread t hangs
  io,               \* disk manager calls issued by the last call, in order
  last,             \* the last call: operation, page id, result
  s1,               \* calls of scenario S1 made so far, S1Off once off its script
  buffer_vec_,      \* parallel pool: its instances, by index; each a record of
                    \* the fields of an instance, with latch_ for its latch
  start_index_,     \* parallel pool: where the next new_page starts
  pool_latch_,      \* parallel pool: owner of its latch_, NoThread when free
  tried,            \* parallel pool: instances the last new_page tried, in order
  s6,               \* calls of scenario S6 made so far, S6Off once off its script
  deleting,         \* deleting[t]: page id and frame id of the DeletePgImp that
                    \* thread t is in the middle of, <<>> when it is in none
  splits            \* times DeletePgImp has run on without latch_ so far

vars == <<pool_size_, capacity, pages, page_table_, free_list_, lru, hashMap,
          next_page_id_, disk, latch_, replacer_latch_, pc, io, last, s1,
          buffer_vec_, start_index_, pool_latch_, tried, s6, deleting, splits>>

\* The variables of the single instance, and of the parallel pool.
instance_vars == <<pool_size_, capacity, pages, page_table_, free_list_, lru,
                   hashMap, next_page_id_, disk, latch_, replacer_latch_, io, s1,
                   deleting, splits>>
pool_vars == <<buffer_vec_, start_index_, pool_latch_, tried, s6>>

Frames == 0 .. (pool_size_ - 1)
\* Page ids the callers use: the ids the allocator hands out within the
\* bounds, and the sentinel.
PageIds == 0 .. (pool_size_ + ExtraPages - 1)
AnyPageId == PageIds \cup {INVALID_PAGE_ID}

\* ------------------------------------------------------------ sequences
Back(s) == s[Len(s)]
PopBack(s) == SubSeq(s, 1, Len(s) - 1)
PushFront(x, s) == <<x>> \o s
Range(s) == {s[i] : i \in 1 .. Len(s)}
RECURSIVE Remove(_, _)
Remove(s, x) ==
  IF s = <<>> THEN <<>>
  ELSE IF Head(s) = x THEN Remove(Tail(s), x)
  ELSE <<Head(s)>> \o Remove(Tail(s), x)
Count(s, x) == Cardinality({i \in 1 .. Len(s) : s[i] = x})

\* The machine state the helpers below transform.
Cur ==
  [pool_size_ |-> pool_size_, capacity |-> capacity, pages |-> pages, page_table_ |-> page_table_, free_list_ |-> free_list_,
   lru |-> lru, hashMap |-> hashMap, next_page_id_ |-> next_page_id_,
   num_instances_ |-> num_instances_, disk |-> disk, io |-> io]

Install(m) ==
  /\ UNCHANGED <<pool_size_, capacity>>
  /\ pages' = m.pages
  /\ page_table_' = m.page_table_
  /\ free_list_' = m.free_list_
  /\ lru' = m.lru
  /\ hashMap' = m.hashMap
  /\ next_page_id_' = m.next_page_id_
  /\ disk' = m.disk
  /\ io' = m.io

\* ------------------------------------------------------------ disk manager
WritePage(m, p, d) ==
  [m EXCEPT !.disk = (p :> d) @@ m.disk,
            !.io = Append(m.io, <<"write", p, d>>)]

ReadPage(m, f, p) ==
  [m EXCEPT !.pages[f].data_ = m.disk[p],
            !.io = Append(m.io, <<"read", p, m.disk[p]>>)]

DeallocatePage(m, p) ==
  [m EXCEPT !.io = Append(m.io, <<"dealloc", p, 0>>)]

\* ---------------------------------------------------------------- replacer
\* Victim: [ok, fid, m]
Victim(m) ==
  IF m.lru = <<>>
  THEN [ok |-> FALSE, fid |-> NoFrame, m |-> m]
  ELSE [ok |-> TRUE, fid |-> Back(m.lru),
        m |-> [m EXCEPT !.lru = PopBack(m.lru),
                        !.hashMap = m.hashMap \ {Back(m.lru)}]]

Pin(m, f) ==
  IF f \in m.hashMap
  THEN [m EXCEPT !.lru = Remove(m.lru, f), !.hashMap = m.hashMap \ {f}]
  ELSE m

\* What a build can do when a thread locks a std::mutex it already owns.
RelockOutcomes == {"deadlock", "proceed"}

\* Unpin calls Victim, which locks latch_ again, inside its while loop: the
\* loop is entered when the fid is absent and lru.size() >= capacity - 1.
UnpinRelocks(m, f) == f \notin m.hashMap /\ Len(m.lru) >= m.capacity - 1

\* The while loop of Unpin once the relock falls through: Victim pops the
\* back while lru.size() >= capacity - 1.
RECURSIVE VictimLoop(_)
VictimLoop(m) ==
  IF Len(m.lru) >= m.capacity - 1 /\ m.lru # <<>>
  THEN VictimLoop(Victim(m).m)
  ELSE m

\* Unpin: [m, hang]. hang = "relock_replacer": blocked in Victim on latch_;
\* hang = "spin": capacity - 1 = 0, the loop condition never turns false.
Unpin(m, f, oc) ==
  IF f \in m.hashMap THEN [m |-> m, hang |-> "none"]
  ELSE IF UnpinRelocks(m, f) /\ oc = "deadlock"
       THEN [m |-> m, hang |-> "relock_replacer"]
  ELSE IF UnpinRelocks(m, f) /\ m.capacity - 1 = 0
       THEN [m |-> VictimLoop(m), hang |-> "spin"]
  ELSE LET n == VictimLoop(m)
       IN [m |-> [n EXCEPT !.lru = PushFront(f, n.lru),
                           !.hashMap = n.hashMap \cup {f}],
           hang |-> "none"]

\* ------------------------------------------------------------ pool instance
Erase(pt, p) == [q \in (DOMAIN pt) \ {p} |-> pt[q]]
Put(pt, p, f) == (p :> f) @@ pt

\* The value of replace_frame_id after the loop over page_table_ in
\* FindReplacePolicy: the key of the first entry met whose value is the
\* victim, -1 if there is none (unordered_map: any entry may come first).
FirstMatch(m) ==
  IF m.free_list_ # <<>> \/ m.lru = <<>> THEN {-1}
  ELSE LET keys == {p \in DOMAIN m.page_table_ : m.page_table_[p] = Back(m.lru)}
       IN IF keys = {} THEN {-1} ELSE keys

\* FindReplacePolicy: [ok, fid, m]
FindReplacePolicy(m, hit) ==
  IF m.free_list_ # <<>>
  THEN [ok |-> TRUE, fid |-> Head(m.free_list_),
        m |-> [m EXCEPT !.free_list_ = Tail(m.free_list_)]]
  ELSE LET v == Victim(m) IN
    IF v.ok /\ hit # -1
    THEN LET pg == v.m.pages[v.fid]
             m1 == IF pg.is_dirty_
                   THEN [WritePage(v.m, pg.page_id_, pg.data_)
                           EXCEPT !.pages[v.fid].pin_count_ = 0]
                   ELSE v.m
         IN [ok |-> TRUE, fid |-> v.fid,
             m |-> [m1 EXCEPT !.page_table_ = Erase(m1.page_table_, pg.page_id_)]]
    ELSE [ok |-> FALSE, fid |-> v.fid, m |-> v.m]

\* AllocatePage: [id, m]
AllocatePage(m) ==
  [id |-> m.next_page_id_,
   m |-> [m EXCEPT !.next_page_id_ = m.next_page_id_ + m.num_instances_]]

\* Body of FlushPgImp once latch_ is held: [ok, m]
FlushPgImp(m, p) ==
  IF p \notin DOMAIN m.page_table_ \/ p = INVALID_PAGE_ID
  THEN [ok |-> FALSE, m |-> m]
  ELSE [ok |-> TRUE, m |-> WritePage(m, p, m.pages[m.page_table_[p]].data_)]

\* Results of the operations: [m, ok, frame, out, hang].
Ret(m, ok, frame, out, hang) ==
  [m |-> m, ok |-> ok, frame |-> frame, out |-> out, hang |-> hang]

\* NewPgImp without the pin of the frame it returns.
NewPgImp_NoPin(m, hit) ==
  LET a == AllocatePage(m)
      is_all == \A i \in 0 .. (m.pool_size_ - 1) : a.m.pages[i].pin_count_ # 0
      r == FindReplacePolicy(a.m, hit)
  IN IF is_all THEN Ret(a.m, FALSE, NoFrame, INVALID_PAGE_ID, "none")
     ELSE IF ~r.ok THEN Ret(r.m, FALSE, NoFrame, INVALID_PAGE_ID, "none")
     ELSE LET f == r.fid
              m1 == [r.m EXCEPT !.pages[f].page_id_ = a.id]
              m2 == Pin(m1, f)
              m3 == [m2 EXCEPT !.page_table_ = Put(m2.page_table_, a.id, f),
                               !.pages[f].is_dirty_ = FALSE]
          IN Ret(WritePage(m3, a.id, m3.pages[f].data_), TRUE, f, a.id, "none")

NewPgImp(m, hit) ==
  LET a == AllocatePage(m)
      is_all == \A i \in 0 .. (m.pool_size_ - 1) : a.m.pages[i].pin_count_ # 0
      r == FindReplacePolicy(a.m, hit)
  IN IF is_all THEN Ret(a.m, FALSE, NoFrame, INVALID_PAGE_ID, "none")
     ELSE IF ~r.ok THEN Ret(r.m, FALSE, NoFrame, INVALID_PAGE_ID, "none")
     ELSE LET f == r.fid
              m1 == [r.m EXCEPT !.pages[f].page_id_ = a.id,
                                !.pages[f].pin_count_ = r.m.pages[f].pin_count_ + 1]
              m2 == Pin(m1, f)
              m3 == [m2 EXCEPT !.page_table_ = Put(m2.page_table_, a.id, f),
                               !.pages[f].is_dirty_ = FALSE]
          IN Ret(WritePage(m3, a.id, m3.pages[f].data_), TRUE, f, a.id, "none")

FetchPgImp(m, p, hit) ==
  IF p \in DOMAIN m.page_table_
  THEN LET f == m.page_table_[p]
           m1 == [m EXCEPT !.pages[f].pin_count_ = m.pages[f].pin_count_ + 1]
       IN Ret(Pin(m1, f), TRUE, f, p, "none")
  ELSE LET r == FindReplacePolicy(m, hit) IN
    IF ~r.ok THEN Ret(r.m, FALSE, NoFrame, p, "none")
    ELSE LET f == r.fid
             old == r.m.pages[f]
             m1 == IF old.is_dirty_ THEN WritePage(r.m, old.page_id_, old.data_)
                   ELSE r.m
             m2 == [m1 EXCEPT !.page_table_ =
                      Put(Erase(m1.page_table_, old.page_id_), p, f)]
             m3 == ReadPage(m2, f, p)
             m4 == [m3 EXCEPT !.pages[f].page_id_ = p,
                              !.pages[f].pin_count_ = m3.pages[f].pin_count_ + 1,
                              !.pages[f].is_dirty_ = FALSE]
         IN Ret(Pin(m4, f), TRUE, f, p, "none")

\* DeletePgImp without its pin count test.
DeletePgImp_IgnoresPins(m, p, oc) ==
  IF p \notin DOMAIN m.page_table_ THEN Ret(m, TRUE, NoFrame, p, "none")
  ELSE LET f == m.page_table_[p]
           m2 == DeallocatePage(m, p)
           m3 == [m2 EXCEPT !.page_table_ = Erase(m2.page_table_, p),
                            !.pages[f].is_dirty_ = FALSE,
                            !.pages[f].pin_count_ = 0,
                            !.pages[f].page_id_ = INVALID_PAGE_ID]
       IN Ret([m3 EXCEPT !.free_list_ = Append(m3.free_list_, f)],
              TRUE, f, p, "none")

\* DeletePgImp calls FlushPgImp, which locks latch_ again, when the page is
\* dirty.
DeletePgImp(m, p, oc) ==
  IF p \notin DOMAIN m.page_table_ THEN Ret(m, TRUE, NoFrame, p, "none")
  ELSE LET f == m.page_table_[p] IN
    IF m.pages[f].pin_count_ > 0 THEN Ret(m, FALSE, f, p, "none")
    ELSE IF m.pages[f].is_dirty_ /\ oc = "deadlock"
         THEN Ret(m, FALSE, f, p, "relock_instance")
    ELSE LET m1 == IF m.pages[f].is_dirty_ THEN FlushPgImp(m, p).m ELSE m
             m2 == DeallocatePage(m1, p)
             m3 == [m2 EXCEPT !.page_table_ = Erase(m2.page_table_, p),
                              !.pages[f].is_dirty_ = FALSE,
                              !.pages[f].pin_count_ = 0,
                              !.pages[f].page_id_ = INVALID_PAGE_ID]
         IN Ret([m3 EXCEPT !.free_list_ = Append(m3.free_list_, f)],
                TRUE, f, p, "none")

UnpinPgImp(m, p, is_dirty, oc) ==
  IF p \notin DOMAIN m.page_table_ THEN Ret(m, FALSE, NoFrame, p, "none")
  ELSE LET f == m.page_table_[p]
           m1 == IF is_dirty THEN [m EXCEPT !.pages[f].is_dirty_ = TRUE] ELSE m
       IN IF m1.pages[f].pin_count_ = 0
          THEN LET u == Unpin(m1, f, oc) IN Ret(u.m, FALSE, f, p, u.hang)
          ELSE LET m2 == [m1 EXCEPT !.pages[f].pin_count_ =
                                       m1.pages[f].pin_count_ - 1]
               IN IF m2.pages[f].pin_count_ = 0
                  THEN LET u == Unpin(m2, f, oc) IN Ret(u.m, TRUE, f, p, u.hang)
                  ELSE Ret(m2, TRUE, f, p, "none")

RECURSIVE FlushFrames(_, _)
FlushFrames(m, i) ==
  IF i >= m.pool_size_ THEN m
  ELSE FlushFrames(FlushPgImp(m, m.pages[i].page_id_).m, i + 1)

FlushAllPgsImp(m) == Ret(FlushFrames(m, 0), TRUE, NoFrame, INVALID_PAGE_ID, "none")

\* ------------------------------------------------------------------ calls
Start == [Cur EXCEPT !.io = <<>>]

\* page_id: the argument; for new_page the id it returned.
Call(op, p, r) ==
  [op |-> op, page_id |-> IF op = "new" THEN r.out ELSE p,
   ok |-> r.ok, hang |-> r.hang]

\* Scenario S1 (pool_size = 3): new_page gives p0, p1, p2; they are unpinned
\* in that order; then one more new_page. s1 counts the calls of a behaviour
\* that has made exactly these calls so far.
S1PoolSize == 3
S1Calls ==
  <<[op |-> "new", page_id |-> 0], [op |-> "new", page_id |-> 1],
    [op |-> "new", page_id |-> 2], [op |-> "unpin", page_id |-> 0],
    [op |-> "unpin", page_id |-> 1], [op |-> "unpin", page_id |-> 2]>>
S1Done == Len(S1Calls) + 1
S1Off == Len(S1Calls) + 2
S1Step(k, c) ==
  IF k < Len(S1Calls) /\ c.hang = "none" /\ c.ok
     /\ c.op = S1Calls[k + 1].op /\ c.page_id = S1Calls[k + 1].page_id
  THEN k + 1
  ELSE IF k = Len(S1Calls) /\ c.op = "new" /\ c.hang = "none" THEN S1Done
  ELSE S1Off

\* A call runs with latch_ held and releases it on return; a call that hangs
\* keeps what it holds.
Finish(op, t, p, r) ==
  /\ Install(r.m)
  /\ last' = Call(op, p, r)
  /\ s1' = S1Step(s1, Call(op, p, r))
  /\ UNCHANGED pool_vars
  /\ UNCHANGED <<deleting, splits>>
  /\ IF r.hang = "none"
     THEN UNCHANGED <<latch_, replacer_latch_, pc>>
     ELSE /\ latch_' = t
          /\ replacer_latch_' =
               IF r.hang \in {"relock_replacer", "spin"} THEN t ELSE replacer_latch_
          /\ pc' = [pc EXCEPT ![t] = r.hang]

\* The threads are interchangeable (a thread has no state but pc), so the
\* next call is made by the first thread that is not hung.
Caller(t) == pc[t] = "idle" /\ \A u \in Threads : u < t => pc[u] # "idle"

CanCall(t) == Caller(t) /\ latch_ = NoThread

FetchPage(t, p) ==
  /\ CanCall(t)
  /\ p \in DOMAIN page_table_ => pages[page_table_[p]].pin_count_ < MaxPin
  /\ \E hit \in FirstMatch(Start) :
       Finish("fetch", t, p, FetchPgImp(Start, p, hit))

NewPage(t) ==
  /\ CanCall(t)
  /\ next_page_id_ \in PageIds
  /\ \E hit \in FirstMatch(AllocatePage(Start).m) :
       Finish("new", t, INVALID_PAGE_ID, NewPgImp(Start, hit))

UnpinPage(t, p, d) ==
  /\ CanCall(t)
  /\ \E oc \in RelockOutcomes :
       Finish("unpin", t, p, UnpinPgImp(Start, p, d, oc))

FlushPage(t, p) ==
  /\ CanCall(t)
  /\ LET r == FlushPgImp(Start, p)
     IN Finish("flush", t, p, Ret(r.m, r.ok, NoFrame, p, "none"))

FlushAllPages(t) ==
  /\ CanCall(t)
  /\ Finish("flush_all", t, INVALID_PAGE_ID, FlushAllPgsImp(Start))

DeletePage(t, p) ==
  /\ CanCall(t)
  /\ \E oc \in RelockOutcomes :
       Finish("delete", t, p, DeletePgImp(Start, p, oc))

\* The holder of a pin overwrites the bytes of its page through the Page
\* pointer that fetch or new_page returned.
WriteData(t, f, b) ==
  /\ Caller(t)
  /\ pages[f].pin_count_ > 0
  /\ pages[f].data_ # b
  /\ pages' = [pages EXCEPT ![f].data_ = b]
  /\ io' = <<>>
  /\ last' = [op |-> "write", page_id |-> pages[f].page_id_, ok |-> TRUE,
              hang |-> "none"]
  /\ s1' = S1Off
  /\ UNCHANGED <<pool_size_, capacity, page_table_, free_list_, lru, hashMap, next_page_id_, disk,
                 latch_, replacer_latch_, pc, deleting, splits>>
  /\ UNCHANGED pool_vars

\* A call on an instance whose latch a hung thread holds waits for ever.
BlockOnLatch(t) ==
  /\ Caller(t)
  /\ latch_ # NoThread
  /\ pc' = [pc EXCEPT ![t] = "wait_instance"]
  /\ UNCHANGED <<pool_size_, capacity, pages, page_table_, free_list_, lru,
                 hashMap, next_page_id_, disk, latch_, replacer_latch_, io, last,
                 s1, deleting, splits>>
  /\ UNCHANGED pool_vars

NoCall ==
  [op |-> "none", page_id |-> INVALID_PAGE_ID, ok |-> TRUE, hang |-> "none"]

\* The state the constructors leave: every frame in the free list.
Constructed(n) ==
  /\ pool_size_ = n
  /\ capacity = n
  /\ pages = [f \in 0 .. (n - 1) |->
                [page_id_ |-> INVALID_PAGE_ID, pin_count_ |-> 0,
                 is_dirty_ |-> FALSE, data_ |-> 0]]
  /\ page_table_ = <<>>
  /\ free_list_ = [i \in 1 .. n |-> i - 1]
  /\ lru = <<>>
  /\ hashMap = {}
  /\ next_page_id_ = instance_index_
  /\ disk = [p \in (-1) .. (n + ExtraPages - 1) |-> 0]
  /\ latch_ = NoThread
  /\ replacer_latch_ = NoThread
  /\ pc = [t \in Threads |-> "idle"]
  /\ io = <<>>
  /\ last = NoCall
  /\ s1 = 0
  /\ deleting = [t \in Threads |-> <<>>]
  /\ splits = 0
  /\ buffer_vec_ = <<>>
  /\ start_index_ = 0
  /\ pool_latch_ = NoThread
  /\ tried = <<>>
  /\ s6 = 0

Init == \E n \in 1 .. PoolSize : Constructed(n)

PoolCall ==
  \/ \E t \in Threads : NewPage(t)
  \/ \E t \in Threads, p \in AnyPageId, d \in BOOLEAN : UnpinPage(t, p, d)
  \/ \E t \in Threads, p \in AnyPageId : DeletePage(t, p)
  \/ \E t \in Threads, p \in AnyPageId : FetchPage(t, p)
  \/ \E t \in Threads, p \in AnyPageId : FlushPage(t, p)
  \/ \E t \in Threads : FlushAllPages(t)
  \/ \E t \in Threads : BlockOnLatch(t)

\* The bytes of the pages never decide what a call does to the frames, the
\* page table, the free list or the replacer, so Spec leaves the bytes alone.
Next == PoolCall

Spec == Init /\ [][Next]_vars

\* The instance of scenario S1, called with new_page and unpin only.
InitS1 == Constructed(S1PoolSize)

NextS1 ==
  \/ \E t \in Threads : NewPage(t)
  \/ \E t \in Threads, p \in PageIds, d \in BOOLEAN : UnpinPage(t, p, d)
  \/ \E t \in Threads : BlockOnLatch(t)

SpecS1 == InitS1 /\ [][NextS1]_vars

\* The instance with callers that overwrite the bytes of the pages they have
\* pinned, with a value other than the zero a fresh frame holds. The callers
\* name the page ids new_page has handed out and the sentinel, and make no
\* flush calls, which only copy bytes to the disk.
InitData == Constructed(PoolSize)

Known == {p \in AnyPageId : p < next_page_id_}

NextData ==
  \/ \E t \in Threads : NewPage(t)
  \/ \E t \in Threads, p \in Known, d \in BOOLEAN : UnpinPage(t, p, d)
  \/ \E t \in Threads, p \in Known : DeletePage(t, p)
  \/ \E t \in Threads, p \in Known : FetchPage(t, p)
  \/ \E t \in Threads, f \in Frames, b \in Bytes \ {0} : WriteData(t, f, b)
  \/ \E t \in Threads : BlockOnLatch(t)

SpecData == InitData /\ [][NextData]_vars

\* The instance with callers that overwrite the bytes of the pages they have
\* pinned and flush them: new_page, fetch, unpin, flush and flush_all, on
\* the page ids new_page has handed out and the sentinel.
NextFlush ==
  \/ \E t \in Threads : NewPage(t)
  \/ \E t \in Threads, p \in Known, d \in BOOLEAN : UnpinPage(t, p, d)
  \/ \E t \in Threads, p \in Known : FetchPage(t, p)
  \/ \E t \in Threads, p \in Known : FlushPage(t, p)
  \/ \E t \in Threads : FlushAllPages(t)
  \/ \E t \in Threads, f \in Frames, b \in Bytes \ {0} : WriteData(t, f, b)
  \/ \E t \in Threads : BlockOnLatch(t)

SpecFlush == InitData /\ [][NextFlush]_vars

\* ------------------------------------------------------------ parallel pool
S6Instances == 4         \* scenario S6: N = 4 instances of pool_size = 2
S6PoolSize == 2

\* num_instances_ and pool_size_ of the parallel pool.
pool_num_instances_ == Cardinality(DOMAIN buffer_vec_)
pool_pool_size_ == buffer_vec_[0].pool_size_
\* Page ids in use in the parallel pool: one for each frame, or ExtraPages
\* more for each instance.
PoolPageIds == 0 .. (pool_num_instances_ * pool_pool_size_ - 1)
PoolMorePageIds == 0 .. (pool_num_instances_ * (pool_pool_size_ + ExtraPages) - 1)

\* The instance the five-argument constructor leaves. No caller of the
\* parallel pool overwrites page bytes here, so every page on the disk
\* manager the instances share reads as zero and each record carries its view.
NewInstance(n, N, i) ==
  [pool_size_ |-> n, capacity |-> n,
   pages |-> [f \in 0 .. (n - 1) |->
                [page_id_ |-> INVALID_PAGE_ID, pin_count_ |-> 0,
                 is_dirty_ |-> FALSE, data_ |-> 0]],
   page_table_ |-> <<>>, free_list_ |-> [k \in 1 .. n |-> k - 1],
   lru |-> <<>>, hashMap |-> {}, next_page_id_ |-> i, num_instances_ |-> N,
   disk |-> [p \in (-1) .. (N * (n + ExtraPages) - 1) |-> 0], io |-> <<>>,
   latch_ |-> NoThread]

\* GetBufferPoolManager sending every page id to the first instance.
GetBufferPoolManager_First(p) == 0

\* page_id % num_instances_: page_id is a signed 32 bit integer, num_instances_
\* a size_t, so page_id is converted to 64 bit unsigned before the division
\* and a negative p counts as 2^64 + p.
GetBufferPoolManager(p) ==
  LET N == pool_num_instances_
      two64 == ((2 ^ 16) % N) ^ 4
  IN IF p >= 0 THEN p % N ELSE (two64 + (p % N)) % N

\* Scenario S6: new_page eight times on the fresh pool, then the eight pages
\* unpinned, in any order, then one more new_page. s6 counts the calls of a
\* behaviour that has made exactly these calls so far.
S6Pages == S6Instances * S6PoolSize
S6Done == 2 * S6Pages + 1
S6Off == 2 * S6Pages + 2
S6Step(k, c) ==
  IF k < S6Pages /\ c.op = "new" /\ c.hang = "none" THEN k + 1
  ELSE IF k >= S6Pages /\ k < 2 * S6Pages /\ c.op = "unpin" /\ c.ok THEN k + 1
  ELSE IF k = 2 * S6Pages /\ c.op = "new" /\ c.hang = "none" THEN S6Done
  ELSE S6Off

\* A call delegated to instance i: it runs under the latch of that instance.
PoolStart(i) == [buffer_vec_[i] EXCEPT !.io = <<>>]

Delegate(op, t, p, i, r) ==
  /\ Caller(t)
  /\ buffer_vec_[i].latch_ = NoThread
  /\ buffer_vec_' = [buffer_vec_ EXCEPT ![i] =
       [r.m EXCEPT !.latch_ = IF r.hang = "none" THEN NoThread ELSE t]]
  /\ pc' = IF r.hang = "none" THEN pc ELSE [pc EXCEPT ![t] = r.hang]
  /\ last' = Call(op, p, r)
  /\ tried' = <<i>>
  /\ s6' = S6Step(s6, Call(op, p, r))
  /\ UNCHANGED <<start_index_, pool_latch_>>
  /\ UNCHANGED instance_vars

PoolFetchPage(t, p) ==
  LET i == GetBufferPoolManager(p) IN
  /\ p \in DOMAIN buffer_vec_[i].page_table_ =>
       buffer_vec_[i].pages[buffer_vec_[i].page_table_[p]].pin_count_ < MaxPin
  /\ \E hit \in FirstMatch(PoolStart(i)) :
       Delegate("fetch", t, p, i, FetchPgImp(PoolStart(i), p, hit))

PoolUnpinPage(t, p, d) ==
  LET i == GetBufferPoolManager(p) IN
  \E oc \in RelockOutcomes :
    Delegate("unpin", t, p, i, UnpinPgImp(PoolStart(i), p, d, oc))

PoolFlushPage(t, p) ==
  LET i == GetBufferPoolManager(p)
      r == FlushPgImp(PoolStart(i), p)
  IN Delegate("flush", t, p, i, Ret(r.m, r.ok, NoFrame, p, "none"))

PoolDeletePage(t, p) ==
  LET i == GetBufferPoolManager(p) IN
  \E oc \in RelockOutcomes :
    Delegate("delete", t, p, i, DeletePgImp(PoolStart(i), p, oc))

\* The for loop of the parallel NewPgImp from its i-th round on, with the
\* pool latch held: the set of ways it can end (an instance's choice of
\* victim entry is FirstMatch). A round whose instance has its latch held by
\* a hung thread never returns.
RECURSIVE PoolNewPgLoop(_, _, _, _)
PoolNewPgLoop(bv, start, i, tr) ==
  LET N == Cardinality(DOMAIN bv)
      index == start % N
  IN IF i >= N
     THEN {[bv |-> bv, start |-> start, tried |-> tr, ok |-> FALSE,
            out |-> INVALID_PAGE_ID, hang |-> "none"]}
     ELSE IF bv[index].latch_ # NoThread
     THEN {[bv |-> bv, start |-> start, tried |-> Append(tr, index),
            ok |-> FALSE, out |-> INVALID_PAGE_ID, hang |-> "wait_instance"]}
     ELSE UNION {
       LET r == NewPgImp([bv[index] EXCEPT !.io = <<>>], hit)
           bv1 == [bv EXCEPT ![index] = r.m]
           start1 == (start + 1) % N
       IN IF r.ok
          THEN {[bv |-> bv1, start |-> start1, tried |-> Append(tr, index),
                 ok |-> TRUE, out |-> r.out, hang |-> "none"]}
          ELSE PoolNewPgLoop(bv1, start1, i + 1, Append(tr, index))
       : hit \in FirstMatch(AllocatePage(bv[index]).m)}

PoolNewPgImp == PoolNewPgLoop(buffer_vec_, start_index_, 0, <<>>)

PoolNewPage(t, ids) ==
  /\ Caller(t)
  /\ pool_latch_ = NoThread
  /\ \A i \in DOMAIN buffer_vec_ : buffer_vec_[i].next_page_id_ \in ids
  /\ \E r \in PoolNewPgImp :
       /\ buffer_vec_' = r.bv
       /\ start_index_' = r.start
       /\ tried' = r.tried
       /\ last' = Call("new", INVALID_PAGE_ID, r)
       /\ s6' = S6Step(s6, Call("new", INVALID_PAGE_ID, r))
       /\ IF r.hang = "none"
          THEN UNCHANGED <<pool_latch_, pc>>
          ELSE pool_latch_' = t /\ pc' = [pc EXCEPT ![t] = r.hang]
  /\ UNCHANGED instance_vars

\* A call delegated to an instance whose latch a hung thread holds, or a
\* new_page on the pool whose latch a hung thread holds, waits for ever.
PoolBlockOnLatch(t) ==
  /\ Caller(t)
  /\ \/ pool_latch_ # NoThread /\ pc' = [pc EXCEPT ![t] = "wait_pool"]
     \/ /\ \E i \in DOMAIN buffer_vec_ : buffer_vec_[i].latch_ # NoThread
        /\ pc' = [pc EXCEPT ![t] = "wait_instance"]
  /\ UNCHANGED <<last, buffer_vec_, start_index_, pool_latch_, tried, s6>>
  /\ UNCHANGED instance_vars

\* The parallel pool its constructor leaves: N instances of n frames each.
\* start_index_ has no initializer in the constructor; every use of it is
\* reduced modulo num_instances_, so it starts as any residue.
PoolConstructed(N, n) ==
  /\ buffer_vec_ = [i \in 0 .. (N - 1) |-> NewInstance(n, N, i)]
  /\ start_index_ \in 0 .. (N - 1)
  /\ pool_latch_ = NoThread
  /\ tried = <<>>
  /\ s6 = 0
  /\ pc = [t \in Threads |-> "idle"]
  /\ last = NoCall
  /\ pool_size_ = 0 /\ capacity = 0
  /\ pages = <<>> /\ page_table_ = <<>> /\ free_list_ = <<>>
  /\ lru = <<>> /\ hashMap = {}
  /\ next_page_id_ = 0 /\ disk = <<>> /\ io = <<>>
  /\ latch_ = NoThread /\ replacer_latch_ = NoThread
  /\ s1 = 0
  /\ deleting = [t \in Threads |-> <<>>]
  /\ splits = 0

\* Page ids the pool has handed out so far.
PoolKnown ==
  {p \in PoolMorePageIds :
     p < buffer_vec_[GetBufferPoolManager(p)].next_page_id_}

\* The pool of NumInstances instances of PoolSize frames. Its callers name
\* the page ids it has handed out, and unpin without the dirty flag.
InitPool == PoolConstructed(NumInstances, PoolSize)

NextPool ==
  \/ \E t \in Threads : PoolNewPage(t, PoolPageIds)
  \/ \E t \in Threads, p \in PoolKnown : PoolUnpinPage(t, p, FALSE)
  \/ \E t \in Threads, p \in PoolKnown : PoolDeletePage(t, p)
  \/ \E t \in Threads, p \in PoolKnown : PoolFetchPage(t, p)
  \/ \E t \in Threads, p \in PoolKnown : PoolFlushPage(t, p)
  \/ \E t \in Threads : PoolBlockOnLatch(t)

SpecPool == InitPool /\ [][NextPool]_vars

\* Scenario S6: the pool of four instances of two frames, called with
\* new_page and unpin only. Its callers call new_page until every instance
\* has handed out pool_size ids, then unpin the pages they hold, each once,
\* and call new_page again when they hold none.
InitS6 == PoolConstructed(S6Instances, S6PoolSize)

PoolFilled ==
  \A i \in DOMAIN buffer_vec_ :
    buffer_vec_[i].next_page_id_ >= pool_num_instances_ * pool_pool_size_

PoolPinned(p) ==
  LET b == buffer_vec_[GetBufferPoolManager(p)]
  IN p \in DOMAIN b.page_table_ /\ b.pages[b.page_table_[p]].pin_count_ > 0

NextS6 ==
  \/ \E t \in Threads :
       /\ PoolFilled => \A p \in PoolKnown : ~PoolPinned(p)
       /\ PoolNewPage(t, PoolMorePageIds)
  \/ \E t \in Threads, p \in PoolKnown :
       PoolFilled /\ PoolPinned(p) /\ PoolUnpinPage(t, p, FALSE)
  \/ \E t \in Threads : PoolBlockOnLatch(t)

SpecS6 == InitS6 /\ [][NextS6]_vars

\* ------------------------------------------------------- overlapping calls
\* Calls of several threads on one instance. A call runs from latch_.lock()
\* to the unlock with no step of another thread in between, except in
\* DeletePgImp of a dirty page: where the second lock of latch_ in FlushPgImp
\* falls through, the lock_guard of FlushPgImp unlocks latch_ on return, and
\* DeletePgImp runs on from DeallocatePage without the latch.

\* DeletePgImp relocks: the page is resident, not pinned and dirty.
DeleteRelocks(m, p) ==
  /\ p \in DOMAIN m.page_table_
  /\ m.pages[m.page_table_[p]].pin_count_ = 0
  /\ m.pages[m.page_table_[p]].is_dirty_

\* DeletePgImp where it does not relock, or where the relock blocks.
DeletePageLocked(t, p) ==
  /\ CanCall(t)
  /\ \E oc \in RelockOutcomes :
       /\ DeleteRelocks(Start, p) => oc = "deadlock"
       /\ Finish("delete", t, p, DeletePgImp(Start, p, oc))

\* DeletePgImp up to the return of FlushPgImp, the relock falling through.
DeleteFlush(t, p) ==
  /\ CanCall(t)
  /\ DeleteRelocks(Start, p)
  /\ splits < MaxSplit
  /\ splits' = splits + 1
  /\ Install(FlushPgImp(Start, p).m)
  /\ deleting' = [deleting EXCEPT ![t] = <<p, page_table_[p]>>]
  /\ pc' = [pc EXCEPT ![t] = "delete_rest"]
  /\ last' = [op |-> "delete", page_id |-> p, ok |-> FALSE, hang |-> "unlocked"]
  /\ s1' = S1Off
  /\ UNCHANGED <<latch_, replacer_latch_>>
  /\ UNCHANGED pool_vars

\* The rest of DeletePgImp, from DeallocatePage to the return; the
\* lock_guard of DeletePgImp then unlocks a latch its thread no longer holds,
\* which releases it or leaves it to the thread that has it.
DeleteRest(t) ==
  /\ pc[t] = "delete_rest"
  /\ LET p == deleting[t][1]
         f == deleting[t][2]
         m2 == DeallocatePage(Cur, p)
         m3 == [m2 EXCEPT !.page_table_ = Erase(m2.page_table_, p),
                          !.pages[f].is_dirty_ = FALSE,
                          !.pages[f].pin_count_ = 0,
                          !.pages[f].page_id_ = INVALID_PAGE_ID]
     IN /\ Install([m3 EXCEPT !.free_list_ = Append(m3.free_list_, f)])
        /\ last' = [op |-> "delete", page_id |-> p, ok |-> TRUE, hang |-> "none"]
  /\ deleting' = [deleting EXCEPT ![t] = <<>>]
  /\ pc' = [pc EXCEPT ![t] = "idle"]
  /\ latch_' \in {latch_, NoThread}
  /\ s1' = S1Off
  /\ UNCHANGED <<replacer_latch_, splits>>
  /\ UNCHANGED pool_vars

\* The callers name the page ids new_page has handed out and unpin the pages
\* they have written, with the dirty flag set.
Allocated == Known \ {INVALID_PAGE_ID}

NextConc ==
  \/ \E t \in Threads : NewPage(t)
  \/ \E t \in Threads, p \in Allocated : UnpinPage(t, p, TRUE)
  \/ \E t \in Threads, p \in Allocated : FetchPage(t, p)
  \/ \E t \in Threads, p \in Allocated : DeletePageLocked(t, p)
  \/ \E t \in Threads, p \in Allocated : DeleteFlush(t, p)
  \/ \E t \in Threads : DeleteRest(t)
  \/ \E t \in Threads : BlockOnLatch(t)

SpecConc == InitData /\ [][NextConc]_vars

TypeOK ==
  /\ \A f \in Frames : /\ pages[f].page_id_ \in AnyPageId
                       /\ pages[f].pin_count_ \in 0 .. MaxPin
                       /\ pages[f].data_ \in Bytes
  /\ DOMAIN page_table_ \subseteq AnyPageId
  /\ \A p \in DOMAIN page_table_ : page_table_[p] \in Frames
  /\ Range(lru) = hashMap
  /\ \A f \in Frames : Count(lru, f) <= 1
  /\ next_page_id_ \in 0 .. (pool_size_ + ExtraPages)

\* -------------------------------------------------------- state predicates
InFreeList(f) == f \in Range(free_list_)
InReplacer(f) == f \in hashMap
Pinned(f) == pages[f].pin_count_ > 0
Resident(p) == p \in DOMAIN page_table_
\* No call is hung inside the instance: every call made so far has returned.
Quiescent == latch_ = NoThread
\* The step is a call of operation op that returned.
Did(op) == latch_ = NoThread /\ last'.op = op /\ last'.hang = "none"
One(b) == IF b THEN 1 ELSE 0

\* ------------------------------------------------------------------ claims

\* C1: after every public operation every frame id is in exactly one of the
\* free list, the replacer and the pinned set.
C1_Partition ==
  Quiescent =>
    \A f \in Frames : One(InFreeList(f)) + One(InReplacer(f)) + One(Pinned(f)) = 1

\* C2: every call runs to completion: no thread ever waits for a latch it
\* holds itself, and none blocks for ever on the replacer or instance latch.
C2_DeadlockFree == \A t \in Threads : pc[t] = "idle"

\* C3: no pinned frame is in the replacer, and a page that is pinned stays in
\* the page table, mapped to the same frame, which keeps holding it.
C3_PinnedNotInReplacer == \A f \in Frames : Pinned(f) => ~InReplacer(f)

C3_PinnedStays ==
  \A p \in DOMAIN page_table_ :
    Pinned(page_table_[p]) =>
      /\ p \in DOMAIN page_table_'
      /\ page_table_'[p] = page_table_[p]
      /\ pages'[page_table_[p]].page_id_ = p

C3_NoPinnedEviction == [](C3_PinnedNotInReplacer) /\ [][C3_PinnedStays]_vars

\* C4: after every public operation the page table is injective, a frame has
\* an entry exactly when it is resident (not in the free list), and the
\* page_id_ of the frame of an entry is the key of the entry.
C4_PageTableConsistent ==
  Quiescent =>
    /\ \A p, q \in DOMAIN page_table_ : page_table_[p] = page_table_[q] => p = q
    /\ \A f \in Frames :
         (\E p \in DOMAIN page_table_ : page_table_[p] = f) <=> ~InFreeList(f)
    /\ \A p \in DOMAIN page_table_ : pages[page_table_[p]].page_id_ = p

\* C5: new_page evicts the least recently unpinned page. Scenario S1: with
\* pool_size = 3, after new_page gave p0, p1, p2 and they were unpinned in
\* that order, the next new_page succeeds and evicts p0 (and only p0).
C5_S1EvictsP0 ==
  s1 = S1Done =>
    /\ last.ok
    /\ ~Resident(0)
    /\ Resident(1) /\ Resident(2) /\ Resident(last.page_id)

\* C6: new_page returns null exactly when every frame is pinned; when it
\* succeeds the new page id is in the page table and its frame has pin count
\* 1 and a clear dirty flag.
C6_NewStep ==
  Did("new") =>
    /\ ~last'.ok <=> (\A f \in Frames : Pinned(f))
    /\ last'.ok =>
         /\ last'.page_id = next_page_id_
         /\ last'.page_id \in DOMAIN page_table_'
         /\ LET pg == pages'[page_table_'[last'.page_id]]
            IN pg.page_id_ = last'.page_id /\ pg.pin_count_ = 1 /\ ~pg.is_dirty_

C6_NewPageNullIffAllPinned == [][C6_NewStep]_vars

\* C7: fetch returns null only when the page is not resident, the free list
\* is empty and every frame is pinned; a hit returns the frame holding the
\* page with its pin count raised by one and the frame out of the replacer;
\* a miss that succeeds leaves the page in a frame with pin count 1, clean.
C7_FetchStep ==
  Did("fetch") =>
    LET p == last'.page_id IN
    /\ ~last'.ok =>
         ~Resident(p) /\ free_list_ = <<>> /\ (\A f \in Frames : Pinned(f))
    /\ Resident(p) =>
         /\ last'.ok
         /\ page_table_' = page_table_
         /\ pages'[page_table_[p]].pin_count_ = pages[page_table_[p]].pin_count_ + 1
         /\ page_table_[p] \notin hashMap'
    /\ (~Resident(p) /\ last'.ok) =>
         /\ p \in DOMAIN page_table_'
         /\ LET pg == pages'[page_table_'[p]]
            IN pg.page_id_ = p /\ pg.pin_count_ = 1 /\ ~pg.is_dirty_

C7_FetchNullOnlyWhenAllPinned == [][C7_FetchStep]_vars

\* C8: when a call takes the page away from a frame whose dirty flag is set
\* (eviction by fetch or new_page, or delete), it issues write_page of that
\* page id with the bytes of the frame, before any read of that page id; and
\* a fetch miss fills the frame with the bytes the disk holds for the page.
C8_DirtyStep ==
  \A p \in DOMAIN page_table_ :
    LET f == page_table_[p] IN
    (/\ latch_ = NoThread /\ last'.op \in {"fetch", "new", "delete"}
     /\ last'.hang = "none"
     /\ pages[f].is_dirty_
     /\ (p \notin DOMAIN page_table_' \/ page_table_'[p] # f)) =>
      \E i \in DOMAIN io' :
        /\ io'[i] = <<"write", p, pages[f].data_>>
        /\ \A j \in 1 .. (i - 1) : ~(io'[j][1] = "read" /\ io'[j][2] = p)

C8_ReadBackStep ==
  (Did("fetch") /\ ~Resident(last'.page_id) /\ last'.ok) =>
    pages'[page_table_'[last'.page_id]].data_ = disk'[last'.page_id]

C8_DirtySafety == [][C8_DirtyStep /\ C8_ReadBackStep]_vars

\* C9: delete of a resident page with pin count 0 returns true; afterwards the
\* page is not in the page table, its frame is reset, the frame id is in the
\* free list exactly once and no longer in the replacer.
C9_DeleteStep ==
  \A p \in DOMAIN page_table_ :
    (latch_ = NoThread /\ last'.op = "delete" /\ last'.page_id = p
       /\ ~Pinned(page_table_[p])) =>
      LET f == page_table_[p] IN
      /\ last'.hang = "none" /\ last'.ok
      /\ p \notin DOMAIN page_table_'
      /\ pages'[f].page_id_ = INVALID_PAGE_ID
      /\ ~pages'[f].is_dirty_ /\ pages'[f].pin_count_ = 0
      /\ Count(free_list_', f) = 1
      /\ f \notin hashMap' /\ f \notin Range(lru')
      /\ Len(lru') = Len(lru) - 1

C9_DeleteUnpinned == [][C9_DeleteStep]_vars

\* C10: delete of a pinned page returns false, delete of a page that is not
\* resident returns true, and either leaves the instance as it was and
\* issues no disk write and no deallocation.
C10_DeleteStep ==
  (latch_ = NoThread /\ last'.op = "delete") =>
    LET p == last'.page_id
        refused == Resident(p) /\ Pinned(page_table_[p])
    IN (refused \/ ~Resident(p)) =>
         /\ last'.hang = "none"
         /\ last'.ok = ~refused
         /\ io' = <<>>
         /\ UNCHANGED <<pages, page_table_, free_list_, lru, hashMap,
                        next_page_id_, disk, latch_, replacer_latch_, pc>>

C10_DeleteRefusedOrAbsent == [][C10_DeleteStep]_vars

\* A delete of a pinned page has just been refused.
C10_Witness ==
  /\ last.op = "delete" /\ ~last.ok /\ last.hang = "none"
  /\ Resident(last.page_id) /\ Pinned(page_table_[last.page_id])

\* C11: pin accounting, one call at a time. A successful fetch or new_page of
\* page p leaves p with one pin more than it had as a resident page (one pin
\* when it was not resident); an unpin that returns true takes one pin away;
\* an unpin of a resident page whose pin count is 0 returns false and leaves
\* the count at 0; an unpin of a page that is not resident returns false; no
\* call changes the pin count of a resident page other than its own, and no
\* pin count is negative.
PinCount(p) == pages[page_table_[p]].pin_count_
PinCountAfter(p) == pages'[page_table_'[p]].pin_count_

C11_PinStep ==
  latch_ = NoThread =>
    LET p == last'.page_id IN
    /\ (last'.op \in {"fetch", "new"} /\ last'.hang = "none" /\ last'.ok) =>
         /\ p \in DOMAIN page_table_'
         /\ PinCountAfter(p) = IF Resident(p) THEN PinCount(p) + 1 ELSE 1
    /\ (last'.op = "unpin" /\ Resident(p) /\ PinCount(p) = 0) =>
         /\ last'.hang = "none" /\ ~last'.ok
         /\ p \in DOMAIN page_table_' /\ PinCountAfter(p) = 0
    /\ (last'.op = "unpin" /\ ~Resident(p)) =>
         last'.hang = "none" /\ ~last'.ok
    /\ (last'.op = "unpin" /\ last'.hang = "none" /\ last'.ok) =>
         Resident(p) /\ p \in DOMAIN page_table_' /\ PinCountAfter(p) = PinCount(p) - 1
    /\ \A q \in DOMAIN page_table_ \cap DOMAIN page_table_' :
         (q # p \/ last'.op \notin {"fetch", "new", "unpin"}) =>
           PinCountAfter(q) = PinCount(q)
    /\ \A f \in Frames : pages'[f].pin_count_ >= 0

C11_PinAccounting == [][C11_PinStep]_vars

\* C14: the sentinel page id is never resident: INVALID_PAGE_ID is not a key
\* of the page table and no frame outside the free list holds it; and fetch,
\* flush and delete of INVALID_PAGE_ID fail fast: fetch returns null, flush
\* returns false, delete returns its miss result, the instance is unchanged
\* and no disk call is issued.
C14_SentinelNotResident ==
  /\ INVALID_PAGE_ID \notin DOMAIN page_table_
  /\ \A f \in Frames : ~InFreeList(f) => pages[f].page_id_ # INVALID_PAGE_ID

C14_SentinelStep ==
  (latch_ = NoThread /\ last'.op \in {"fetch", "flush", "delete"}
     /\ last'.page_id = INVALID_PAGE_ID) =>
    /\ last'.hang = "none"
    /\ last'.ok = (last'.op = "delete")
    /\ io' = <<>>
    /\ UNCHANGED <<pages, page_table_, free_list_, lru, hashMap,
                   next_page_id_, disk>>

C14_SentinelFailFast == [](C14_SentinelNotResident) /\ [][C14_SentinelStep]_vars

\* C17: when the pool unpins a frame (the pin count of the page falls to 0,
\* or is 0 already) the replacer's unpin returns; a frame id that was absent
\* is put at the front of the list and every other candidate stays, in the
\* same order; a frame id that was present changes nothing; and the replacer
\* never holds more than capacity frame ids.
C17_UnpinStep ==
  (latch_ = NoThread /\ last'.op = "unpin" /\ Resident(last'.page_id)
     /\ PinCount(last'.page_id) <= 1) =>
    LET fid == page_table_[last'.page_id] IN
    /\ last'.hang = "none"
    /\ lru' = IF fid \in hashMap THEN lru ELSE PushFront(fid, lru)
    /\ hashMap' = hashMap \cup {fid}

C17_UnpinAddsWithoutEvicting ==
  [](Len(lru) <= capacity) /\ [][C17_UnpinStep]_vars

\* C18: a new_page call that succeeds returns the next id of the progression
\* instance_index_, instance_index_ + num_instances_, ... and advances the
\* allocator by num_instances_; a new_page call that returns null consumes no
\* id and leaves the allocator, the page table, the free list, the replacer
\* and the frames as they were.
C18_AllocStep ==
  Did("new") =>
    IF last'.ok
    THEN /\ last'.page_id = next_page_id_
         /\ next_page_id_' = next_page_id_ + num_instances_
    ELSE UNCHANGED <<next_page_id_, page_table_, free_list_, lru, hashMap, pages>>

C18_GapFreeAllocation ==
  [](next_page_id_ % num_instances_ = instance_index_) /\ [][C18_AllocStep]_vars

\* C19: FindReplacePolicy, called in any state a fetch miss or new_page can
\* call it in: when it returns true the frame id it gives is in none of the
\* free list, the page table and the replacer; when it returns false the
\* free list, the page table and the replacer are as before the call. And
\* while the free list is not empty a fetch miss or new_page that succeeds
\* takes the frame at the front of the free list, removes no page table
\* entry and leaves the replacer alone but for the pin of that frame.
C19_FindReplace ==
  Quiescent =>
    \A hit \in FirstMatch(Cur) :
      LET r == FindReplacePolicy(Cur, hit) IN
      IF r.ok
      THEN /\ r.fid \notin Range(r.m.free_list_)
           /\ \A p \in DOMAIN r.m.page_table_ : r.m.page_table_[p] # r.fid
           /\ r.fid \notin r.m.hashMap /\ r.fid \notin Range(r.m.lru)
      ELSE /\ r.m.free_list_ = free_list_
           /\ r.m.page_table_ = page_table_
           /\ r.m.lru = lru /\ r.m.hashMap = hashMap

C19_FreeListStep ==
  (latch_ = NoThread /\ last'.op \in {"fetch", "new"} /\ last'.hang = "none"
     /\ last'.ok /\ free_list_ # <<>>
     /\ (last'.op = "fetch" => ~Resident(last'.page_id))) =>
    LET p == last'.page_id
        fid == Head(free_list_)
    IN /\ p \in DOMAIN page_table_' /\ page_table_'[p] = fid
       /\ free_list_' = Tail(free_list_)
       /\ \A q \in DOMAIN page_table_ :
            q \in DOMAIN page_table_' /\ (q # p => page_table_'[q] = page_table_[q])
       /\ lru' = Remove(lru, fid) /\ hashMap' = hashMap \ {fid}

C19_FreeListFirst == [](C19_FindReplace) /\ [][C19_FreeListStep]_vars

\* C15 as stated: in every state in which new_page can be called, a new_page
\* that succeeds with page id p, followed at once by delete(p), leaves the
\* set of resident page ids as it was before the new_page.
NewThenDelete(hit, oc) ==
  LET n == NewPgImp(Start, hit)
      d == DeletePgImp(n.m, n.out, oc)
  IN [new |-> n, delete |-> d]

CanCallNew == Quiescent /\ next_page_id_ \in PageIds

C15_NewDeleteRestores ==
  CanCallNew =>
    \A hit \in FirstMatch(AllocatePage(Start).m), oc \in RelockOutcomes :
      LET c == NewThenDelete(hit, oc) IN
      c.new.ok => DOMAIN c.delete.m.page_table_ = DOMAIN page_table_

\* C15, amended: new_page returns p with pin count 1, so the delete(p) that
\* follows at once is refused: it returns false and changes nothing, p is
\* resident afterwards, and when new_page took its frame from the free list
\* the resident set is the one before the new_page with p added.
C15_NewDeleteRefused ==
  CanCallNew =>
    \A hit \in FirstMatch(AllocatePage(Start).m), oc \in RelockOutcomes :
      LET c == NewThenDelete(hit, oc) IN
      c.new.ok =>
        /\ ~c.delete.ok /\ c.delete.hang = "none"
        /\ c.delete.m = c.new.m
        /\ c.new.out \in DOMAIN c.delete.m.page_table_
        /\ free_list_ # <<>> =>
             DOMAIN c.delete.m.page_table_ = DOMAIN page_table_ \cup {c.new.out}

\* new_page has returned the newest page id and the delete of that page,
\* called next, has been refused.
C15_Witness ==
  /\ last.op = "delete" /\ ~last.ok /\ last.hang = "none"
  /\ last.page_id = next_page_id_ - num_instances_
  /\ Resident(last.page_id) /\ PinCount(last.page_id) = 1

\* C16: flush of a resident page returns true, issues write_page of the page
\* with the bytes of its frame and nothing else, and leaves the frames, the
\* page table, the free list and the replacer unchanged; flush of a page that
\* is not resident returns false and issues no disk call. After flush_all the
\* disk holds, for every resident page, the bytes of the frame holding it.
C16_FlushStep ==
  Did("flush") =>
    LET p == last'.page_id IN
    /\ UNCHANGED <<pages, page_table_, free_list_, lru, hashMap, next_page_id_>>
    /\ IF Resident(p)
       THEN /\ last'.ok
            /\ io' = << <<"write", p, pages[page_table_[p]].data_>> >>
            /\ disk'[p] = pages[page_table_[p]].data_
       ELSE ~last'.ok /\ io' = <<>> /\ disk' = disk

C16_FlushAllStep ==
  Did("flush_all") =>
    /\ UNCHANGED <<pages, page_table_, free_list_, lru, hashMap, next_page_id_>>
    /\ \A p \in DOMAIN page_table_ : disk'[p] = pages[page_table_[p]].data_

C16_FlushContract == [][C16_FlushStep /\ C16_FlushAllStep]_vars

\* C12: in the parallel pool every page id resident in instance i has residue
\* i modulo the number of instances and was handed out by the allocator of
\* instance i, so a page id is resident in at most one instance; new_page
\* returns an id with the residue of the instance that made it; and a fetch,
\* unpin, flush or delete of p is run by instance p mod N and changes no
\* other instance.
C12_ResidentWhereAllocated ==
  \A i \in DOMAIN buffer_vec_ :
    \A p \in DOMAIN buffer_vec_[i].page_table_ :
      /\ p % pool_num_instances_ = i
      /\ p < buffer_vec_[i].next_page_id_
      /\ \A j \in DOMAIN buffer_vec_ :
           p \in DOMAIN buffer_vec_[j].page_table_ => j = i

C12_RoutingStep ==
  LET p == last'.page_id
      N == pool_num_instances_
  IN /\ (last'.op = "new" /\ last'.hang = "none" /\ last'.ok /\ pc' = pc) =>
          /\ p % N = Back(tried')
          /\ p \in DOMAIN buffer_vec_'[p % N].page_table_
          /\ p = buffer_vec_[p % N].next_page_id_
     /\ (last'.op \in {"fetch", "unpin", "flush", "delete"} /\ pc' = pc) =>
          /\ tried' = <<p % N>>
          /\ \A j \in DOMAIN buffer_vec_ :
               j # p % N => buffer_vec_'[j] = buffer_vec_[j]

C12_Routing == [](C12_ResidentWhereAllocated) /\ [][C12_RoutingStep]_vars

\* Both instances hold a page, and the last call was a fetch that the second
\* instance ran and that brought the page in.
C12_Witness ==
  /\ last.op = "fetch" /\ last.ok /\ last.hang = "none"
  /\ tried = <<1>>
  /\ last.page_id \in DOMAIN buffer_vec_[1].page_table_
  /\ buffer_vec_[1].io # <<>>
  /\ DOMAIN buffer_vec_[0].page_table_ # {}

\* C13: a new_page of the parallel pool tries the instances in cyclic order
\* from start_index_, one round each, and leaves start_index_ advanced by the
\* number of rounds; it returns the page of the first instance that succeeds,
\* and returns null only after all N instances have been tried, which
\* happens only when every frame of every instance is pinned. Scenario S6
\* (N = 4, pool_size = 2): the first eight new_page calls succeed and leave
\* two pages in each instance; unpinning the eight pages returns each time;
\* the new_page after that succeeds.
C13_RotationStep ==
  (last'.op = "new" /\ last'.hang = "none" /\ pc' = pc) =>
    LET N == pool_num_instances_
        k == Len(tried')
    IN /\ k \in 1 .. N
       /\ \A j \in 1 .. k : tried'[j] = (start_index_ + j - 1) % N
       /\ start_index_' = (start_index_ + k) % N
       /\ last'.ok =>
            last'.page_id \in DOMAIN buffer_vec_'[tried'[k]].page_table_
       /\ ~last'.ok =>
            /\ k = N
            /\ \A i \in DOMAIN buffer_vec_ : \A f \in DOMAIN buffer_vec_[i].pages :
                 buffer_vec_[i].pages[f].pin_count_ > 0

C13_S6 ==
  /\ (s6 \in 1 .. S6Pages \/ s6 = S6Done) => last.ok
  /\ s6 = S6Pages =>
       \A i \in DOMAIN buffer_vec_ :
         DOMAIN buffer_vec_[i].page_table_ = {i, i + pool_num_instances_}
  /\ s6 \in (S6Pages + 1) .. (2 * S6Pages) => last.hang = "none"

C13_ParallelRotation == [](C13_S6) /\ [][C13_RotationStep]_vars

\* C20: calls that overlap on an instance take effect one at a time, each
\* on the state the one before it left: a delete that returns true removes a
\* page that no caller has pinned at that moment, a new_page returns the id
\* the allocator held and advances it, and the frame a new_page or a fetch
\* miss returns is one no caller has pinned.
C20_AtomicStep ==
  LET p == last'.page_id IN
  /\ (last'.op = "delete" /\ last'.hang = "none" /\ last'.ok
        /\ Resident(p) /\ p \notin DOMAIN page_table_') =>
       ~Pinned(page_table_[p])
  /\ (Did("new") /\ last'.ok) =>
       /\ p = next_page_id_ /\ next_page_id_' > next_page_id_
       /\ ~Pinned(page_table_'[p])
  /\ (Did("fetch") /\ last'.ok /\ ~Resident(p)) =>
       ~Pinned(page_table_'[p])

====
